---- MODULE Spec2Model ----
(***************************************************************************)
(* Path-trie router of go-webapi/webapi (endpoint.go): registration with   *)
(* Add/setVal, lookup with Search and the backtracking cursor              *)
(* stack.search / stack.next / stack.back, and the default classifier      *)
(* defaultFallback.  Paths, keys and segments are Go strings and are       *)
(* modelled as TLA+ strings, cut and compared character by character.      *)
(***************************************************************************)
EXTENDS Integers, Sequences, FiniteSets, TLC

(***************************************************************************)
(* Bounds of the exploration.                                              *)
(***************************************************************************)
\* largest number of Add calls made on one trie
MaxAdds == 3

\* number of requests served concurrently on one collection
MaxCallers == 2

\* largest number of Register and AddEndpoint calls made on one host
MaxRegistrations == 3

\* largest number of Reply, Write and Redirect calls made on one Context
MaxReplies == 3

\* paths handed to Add: "" is the root route as the host stores it
\* (solveBasePath("/") = ""), every other path starts with "/";
\* "//{digits}" has an empty first segment
RoutePool ==
    { "", "/a/b",
      "/a/{digits}/x", "/a/{string}/y", "/a/{string}",
      "/a/{digits}/b/{string}",
      "/{digits}/true/x", "/{digits}/{bool}/c",
      "/{string}/{string}/c", "/{string}/{digits}/c",
      "/a/{string}/b",
      "/a/{float}", "//{digits}" }

\* request paths handed to Search
RequestPool ==
    { "", "/", "/a/b", "//a",
      "/a/42/y", "/a/42", "/a/7/b/hello", "/a//b",
      "/42/true/c", "/a/{digits}/x", "/a/{string}", "/a/42/z",
      "/a/42.0", "/a/True", "/42/FALSE/c", "/42" }

(***************************************************************************)
(* Go strings.                                                             *)
(***************************************************************************)
Char(s, i) == SubSeq(s, i, i)

\* strings.Contains(s, sub)
Contains(s, sub) ==
    \E i \in 1..(Len(s) - Len(sub) + 1) : SubSeq(s, i, i + Len(sub) - 1) = sub

RECURSIVE SplitFrom(_, _, _)
SplitFrom(s, i, start) ==
    IF i > Len(s) THEN << SubSeq(s, start, Len(s)) >>
    ELSE IF Char(s, i) = "/"
         THEN << SubSeq(s, start, i - 1) >> \o SplitFrom(s, i + 1, i + 1)
         ELSE SplitFrom(s, i + 1, start)

\* strings.Split(s, "/"): the pieces between the slashes, "" included;
\* a string without a slash (also the empty string) gives one piece
Split(s) == SplitFrom(s, 1, 1)

\* path[1:] of a Go slice that has at least one element
Rest(seq) == SubSeq(seq, 2, Len(seq))

LowerChar(c) ==
    CASE c = "T" -> "t" [] c = "R" -> "r" [] c = "U" -> "u" [] c = "E" -> "e"
      [] c = "F" -> "f" [] c = "A" -> "a" [] c = "L" -> "l" [] c = "S" -> "s"
      [] c = "I" -> "i" [] c = "N" -> "n" [] c = "Y" -> "y"
      [] OTHER -> c

RECURSIVE ToLower(_)
\* strings.ToLower over the letters that occur in the modelled texts
ToLower(s) == IF s = "" THEN "" ELSE LowerChar(Head(s)) \o ToLower(Tail(s))

DigitChars == {"0", "1", "2", "3", "4", "5", "6", "7", "8", "9"}

DigitVal(c) ==
    CASE c = "0" -> 0 [] c = "1" -> 1 [] c = "2" -> 2 [] c = "3" -> 3
      [] c = "4" -> 4 [] c = "5" -> 5 [] c = "6" -> 6 [] c = "7" -> 7
      [] c = "8" -> 8 [] c = "9" -> 9

AllDigits(s) == \A i \in 1..Len(s) : Char(s, i) \in DigitChars

RECURSIVE DecVal(_)
\* value of a short string of decimal digits
DecVal(s) ==
    IF s = "" THEN 0
    ELSE 10 * DecVal(SubSeq(s, 1, Len(s) - 1)) + DigitVal(Char(s, Len(s)))

HasSign(s) == Len(s) > 0 /\ Char(s, 1) \in {"+", "-"}
Unsigned(s) == IF HasSign(s) THEN Tail(s) ELSE s
SignOf(s) == IF Len(s) > 0 /\ Char(s, 1) = "-" THEN -1 ELSE 1

RECURSIVE StripLeft(_)
\* a string of digits without its leading zeros ("" for zero)
StripLeft(d) == IF d # "" /\ Head(d) = "0" THEN StripLeft(Tail(d)) ELSE d

RECURSIVE StripRight(_)
\* a string of digits without its trailing zeros
StripRight(d) ==
    IF d # "" /\ Char(d, Len(d)) = "0"
    THEN StripRight(SubSeq(d, 1, Len(d) - 1))
    ELSE d

RECURSIVE DigitsLE(_, _)
\* a <= b for two strings of digits of one length
DigitsLE(a, b) ==
    IF a = "" THEN TRUE
    ELSE IF Head(a) = Head(b) THEN DigitsLE(Tail(a), Tail(b))
    ELSE DigitVal(Head(a)) < DigitVal(Head(b))

\* the magnitudes of math.MaxInt64 and math.MinInt64
MaxInt64 == "9223372036854775807"
MinInt64 == "9223372036854775808"

\* whether the magnitude d (no leading zeros) fits a 64-bit integer
FitsInt64(d, limit) ==
    Len(d) < Len(limit) \/ (Len(d) = Len(limit) /\ DigitsLE(d, limit))

\* strconv.ParseInt(s, 10, 64): optional sign, then one or more digits, the
\* value within the range of int64.  The value is kept as its sign and its
\* decimal digits, so that no integer width cuts it.
ParseInt(s) ==
    LET u  == Unsigned(s)
        ok == /\ Len(u) > 0
              /\ AllDigits(u)
              /\ FitsInt64(StripLeft(u),
                           IF SignOf(s) = -1 THEN MinInt64 ELSE MaxInt64)
    IN  [ok |-> ok,
         neg |-> ok /\ SignOf(s) = -1 /\ StripLeft(u) # "",
         digits |-> IF ok THEN StripLeft(u) ELSE ""]

\* position of the first occurrence of one of the characters cs, 0 if none
FirstOf(s, cs) ==
    IF \E i \in 1..Len(s) : Char(s, i) \in cs
    THEN CHOOSE i \in 1..Len(s) :
            /\ Char(s, i) \in cs
            /\ \A j \in 1..(i - 1) : Char(s, j) \notin cs
    ELSE 0

\* the exponent of a float text: optional sign, one or more digits; the
\* value saturates as strconv's does (e < 10000)
ParseExp(s) ==
    LET u == Unsigned(s)
        ok == Len(u) > 0 /\ AllDigits(u)
    IN  [ok |-> ok,
         val |-> IF ~ok THEN 0
                 ELSE IF Len(StripLeft(u)) > 4 THEN SignOf(s) * 10000
                 ELSE SignOf(s) * DecVal(StripLeft(u))]

\* the number digits * 10^exp in normal form: digits has neither leading
\* nor trailing zeros, zero is the empty string with exp 0 and no sign
Decimal(neg, digits, exp) ==
    LET m0 == StripLeft(digits)
        m  == StripRight(m0)
    IN  [neg    |-> neg /\ m # "",
         digits |-> m,
         exp    |-> IF m = "" THEN 0 ELSE exp + (Len(m0) - Len(m))]

\* strconv.ParseFloat(s, 64) on decimal text: optional sign, digits with an
\* optional point (at least one digit), optional exponent; also the words
\* inf, infinity (with a sign or not) and nan.  A text whose value is
\* 10^308 or more is taken as out of range (the exact limit, about
\* 1.8 * 10^308, lies beyond the modelled texts); hexadecimal floats and
\* underscores are outside the alphabet of the model.
ParseFloat(s) ==
    LET u    == Unsigned(s)
        e    == FirstOf(u, {"e", "E"})
        mant == IF e = 0 THEN u ELSE SubSeq(u, 1, e - 1)
        expo == IF e = 0 THEN "0" ELSE SubSeq(u, e + 1, Len(u))
        p    == FirstOf(mant, {"."})
        ip   == IF p = 0 THEN mant ELSE SubSeq(mant, 1, p - 1)
        fp   == IF p = 0 THEN "" ELSE SubSeq(mant, p + 1, Len(mant))
        ex   == ParseExp(expo)
        form == /\ AllDigits(ip) /\ AllDigits(fp)
                /\ Len(ip) + Len(fp) > 0
                /\ ex.ok
        v    == IF form
                THEN Decimal(SignOf(s) = -1, ip \o fp, ex.val - Len(fp))
                ELSE Decimal(FALSE, "", 0)
    IN  IF ToLower(u) \in {"inf", "infinity"} \/ ToLower(s) = "nan"
        THEN [ok |-> TRUE, special |-> TRUE, value |-> Decimal(FALSE, "", 0)]
        ELSE [ok |-> form /\ Len(v.digits) + v.exp <= 308,
              special |-> FALSE, value |-> v]

\* float64(digit) == decimal: both are correctly rounded, so they are equal
\* exactly when the integer and the float text denote one number
SameNumber(i, f) ==
    /\ f.ok /\ ~f.special
    /\ Decimal(i.neg, i.digits, 0) = f.value

(***************************************************************************)
(* defaultFallback(value, times): the candidate key of an attempt.         *)
(***************************************************************************)
\* defaultFallback that asks ParseFloat before ParseInt
defaultFallback_FloatFirst(value, times) ==
    CASE times = 1 ->
            IF ParseFloat(value).ok
            THEN [key |-> "{float}", err |-> FALSE]
            ELSE IF ParseInt(value).ok
            THEN [key |-> "{digits}", err |-> FALSE]
            ELSE IF ToLower(value) = "true" \/ ToLower(value) = "false"
            THEN [key |-> "{bool}", err |-> FALSE]
            ELSE [key |-> "", err |-> FALSE]
      [] times = 2 -> [key |-> "{string}", err |-> FALSE]
      [] OTHER -> [key |-> "", err |-> TRUE]

\* defaultFallback that takes a float text of integral value as digits
defaultFallback_IntegralAsDigits(value, times) ==
    CASE times = 1 ->
            LET digit == ParseInt(value)
                decimal == ParseFloat(value)
            IN  IF digit.ok \/ (decimal.ok /\ ~decimal.special
                                            /\ decimal.value.exp >= 0)
                THEN [key |-> "{digits}", err |-> FALSE]
                ELSE IF decimal.ok
                THEN [key |-> "{float}", err |-> FALSE]
                ELSE IF ToLower(value) = "true" \/ ToLower(value) = "false"
                THEN [key |-> "{bool}", err |-> FALSE]
                ELSE [key |-> "", err |-> FALSE]
      [] times = 2 -> [key |-> "{string}", err |-> FALSE]
      [] OTHER -> [key |-> "", err |-> TRUE]

\* defaultFallback that compares the text with "true" and "false" as spelt
defaultFallback_CaseSensitive(value, times) ==
    CASE times = 1 ->
            LET digit == ParseInt(value)
                decimal == ParseFloat(value)
            IN  IF digit.ok /\ SameNumber(digit, decimal)
                THEN [key |-> "{digits}", err |-> FALSE]
                ELSE IF decimal.ok
                THEN [key |-> "{float}", err |-> FALSE]
                ELSE IF value = "true" \/ value = "false"
                THEN [key |-> "{bool}", err |-> FALSE]
                ELSE [key |-> "", err |-> FALSE]
      [] times = 2 -> [key |-> "{string}", err |-> FALSE]
      [] OTHER -> [key |-> "", err |-> TRUE]

defaultFallback(value, times) ==
    CASE times = 1 ->
            LET digit == ParseInt(value)
                decimal == ParseFloat(value)
            IN  IF digit.ok /\ SameNumber(digit, decimal)
                THEN [key |-> "{digits}", err |-> FALSE]
                ELSE IF decimal.ok
                THEN [key |-> "{float}", err |-> FALSE]
                ELSE IF ToLower(value) = "true" \/ ToLower(value) = "false"
                THEN [key |-> "{bool}", err |-> FALSE]
                ELSE [key |-> "", err |-> FALSE]
      [] times = 2 -> [key |-> "{string}", err |-> FALSE]
      [] OTHER -> [key |-> "", err |-> TRUE]

(***************************************************************************)
(* The trie.  An endpoint object is named by the keys that lead to it from *)
(* the root (a (parent, key) slot is filled at most once, so this names    *)
(* each allocated object); its fields are kept as in the struct.           *)
(***************************************************************************)
Root == << >>
\* the nil pointer; no key of the model is spelt this way
Nil == << "<nil>" >>
\* the nil interface value
NoVal == << >>
\* an empty map[string]*endpoint
EmptyMap == [k \in {} |-> Root]

NewEndpoint(prior, val, made) ==
    [prior |-> prior, val |-> val, made |-> made, nodes |-> EmptyMap]

\* m[k] = v of a Go map
MapPut(m, k, v) == [j \in DOMAIN m \cup {k} |-> IF j = k THEN v ELSE m[j]]

\* the heap after the object id has been allocated with the fields e
Alloc(T, id, e) == [j \in DOMAIN T \cup {id} |-> IF j = id THEN e ELSE T[j]]

\* if n.nodes == nil { n.nodes = map[string]*endpoint{} }
MakeNodes(T, n) == [T EXCEPT ![n].made = TRUE]

RECURSIVE setVal_Overwrite(_, _, _, _)
\* setVal without the n.val == nil test: the value is stored in any case
setVal_Overwrite(T, n, value, path) ==
    LET T1 == MakeNodes(T, n)
    IN  IF Len(path) = 0
        THEN [tree |-> [T1 EXCEPT ![n].val = value], err |-> FALSE]
        ELSE LET name == path[1]
                 child == Append(n, name)
                 T2 == IF name \notin DOMAIN T1[n].nodes
                       THEN [Alloc(T1, child, NewEndpoint(n, NoVal, FALSE))
                                EXCEPT ![n].nodes = MapPut(@, name, child)]
                       ELSE T1
             IN  setVal_Overwrite(T2, T2[n].nodes[name], value, Rest(path))

RECURSIVE setVal_MarkPath(_, _, _, _)
\* setVal that also stores the value in the valueless nodes it walks through
setVal_MarkPath(T, n, value, path) ==
    LET T1 == MakeNodes(T, n)
    IN  IF Len(path) = 0
        THEN IF T1[n].val = NoVal
             THEN [tree |-> [T1 EXCEPT ![n].val = value], err |-> FALSE]
             ELSE [tree |-> T1, err |-> TRUE]
        ELSE LET name == path[1]
                 child == Append(n, name)
                 T2 == IF name \notin DOMAIN T1[n].nodes
                       THEN [Alloc(T1, child, NewEndpoint(n, NoVal, FALSE))
                                EXCEPT ![n].nodes = MapPut(@, name, child)]
                       ELSE T1
             IN  setVal_MarkPath(
                    [T2 EXCEPT ![T2[n].nodes[name]].val =
                                    IF Len(path) > 1 /\ @ = NoVal
                                    THEN value ELSE @],
                    T2[n].nodes[name], value, Rest(path))

RECURSIVE setVal(_, _, _, _)
\* (n *endpoint) setVal(value, path...): the heap afterwards and the error
setVal(T, n, value, path) ==
    LET T1 == MakeNodes(T, n)
    IN  IF Len(path) = 0
        THEN IF T1[n].val = NoVal
             THEN [tree |-> [T1 EXCEPT ![n].val = value], err |-> FALSE]
             ELSE [tree |-> T1, err |-> TRUE]
        ELSE LET name == path[1]
                 child == Append(n, name)
                 T2 == IF name \notin DOMAIN T1[n].nodes
                       THEN [Alloc(T1, child, NewEndpoint(n, NoVal, FALSE))
                                EXCEPT ![n].nodes = MapPut(@, name, child)]
                       ELSE T1
             IN  setVal(T2, T2[n].nodes[name], value, Rest(path))

IsWildcardPath(path) ==
    \/ Contains(path, "{digits}") \/ Contains(path, "{float}")
    \/ Contains(path, "{string}") \/ Contains(path, "{bool}")

\* Add whose literal branch stores the new endpoint whether or not the
\* root already has a child under the path
Add_Replace(T, path, value) ==
    LET T1 == MakeNodes(T, Root)
    IN  IF IsWildcardPath(path)
        THEN setVal(T1, Root, value, Rest(Split(path)))
        ELSE LET child == Append(Root, path)
             IN  [tree |-> [Alloc(T1, child, NewEndpoint(Nil, value, FALSE))
                               EXCEPT ![Root].nodes = MapPut(@, path, child)],
                  err |-> path \in DOMAIN T1[Root].nodes]

\* (n *endpoint) Add(path, value) on the root endpoint
Add(T, path, value) ==
    LET T1 == MakeNodes(T, Root)
    IN  IF IsWildcardPath(path)
        THEN setVal(T1, Root, value, Rest(Split(path)))
        ELSE IF path \in DOMAIN T1[Root].nodes
             THEN [tree |-> T1, err |-> TRUE]
             ELSE LET child == Append(Root, path)
                  IN  [tree |-> [Alloc(T1, child, NewEndpoint(Nil, value, FALSE))
                                    EXCEPT ![Root].nodes = MapPut(@, path, child)],
                       err |-> FALSE]

(***************************************************************************)
(* The search cursor.  A list.List is a sequence whose first element is    *)
(* Front() and whose last element is Back().                               *)
(***************************************************************************)
Keyword(text) == [text |-> text, times |-> 0]

PushFront(l, e) == << e >> \o l
PushBack(l, e) == Append(l, e)
Front(l) == l[1]
Back(l) == l[Len(l)]
RemoveFront(l) == SubSeq(l, 2, Len(l))
RemoveBack(l) == SubSeq(l, 1, Len(l) - 1)

Return(value, args, how) ==
    [kind |-> "return", value |-> value, args |-> args, how |-> how]
Continue(s) == [kind |-> "continue", stk |-> s]
Panic(s) == [kind |-> "panic", stk |-> s]

\* (n endpoint) search(path...): the stack object the lookup starts with;
\* the Fallback field is nil, so stack.search installs defaultFallback
endpointSearch(path) ==
    LET p == IF Len(path) = 0 THEN << "" >> ELSE path
    IN  [current |-> Keyword(p[1]),
         node    |-> Root,
         history |-> << >>,
         queue   |-> [i \in 1..(Len(p) - 1) |-> Keyword(p[i + 1])],
         args    |-> << >>]

\* Search without the lookup of the whole path among the root's keys
Search_NoDirect(T, path) ==
    IF ~T[Root].made
    THEN Return(NoVal, << >>, "nil-nodes")
    ELSE Continue(endpointSearch(Rest(Split(path))))

\* (n endpoint) Search(path) up to its call of stack.search
Search(T, path) ==
    IF ~T[Root].made
    THEN Return(NoVal, << >>, "nil-nodes")
    ELSE IF path \in DOMAIN T[Root].nodes
    THEN Return(T[T[Root].nodes[path]].val, << >>, "direct")
    ELSE Continue(endpointSearch(Rest(Split(path))))

RECURSIVE fallbackLoop(_, _)
\* the for loop of stack.search, entered with times already incremented:
\* times <= 1 keeps the literal text as key, otherwise the fallback is asked
\* until it fails or returns a non-empty key
fallbackLoop(text, times) ==
    IF times > 1
    THEN LET f == defaultFallback(text, times - 1)
         IN  IF f.err \/ Len(f.key) > 0
             THEN [times |-> times, key |-> f.key, err |-> f.err]
             ELSE fallbackLoop(text, times + 1)
    ELSE [times |-> times, key |-> text, err |-> FALSE]

\* (stack *stack) next(node)
next(s, node) ==
    LET arg == IF s.current.times > 1 THEN s.current.text ELSE ""
    IN  [current |-> Front(s.queue),
         node    |-> node,
         history |-> PushFront(s.history, s.current),
         queue   |-> RemoveFront(s.queue),
         args    |-> PushBack(s.args, arg)]

\* (stack *stack) back(); called with a non-empty history
back(T, s) ==
    [current |-> Back(s.history),
     node    |-> T[s.node].prior,
     history |-> RemoveBack(s.history),
     queue   |-> PushFront(s.queue, [s.current EXCEPT !.times = 0]),
     args    |-> RemoveBack(s.args)]

\* back() dereferences stack.node and removes args.Back()
backPanics(s) == s.node = Nil \/ Len(s.args) = 0

RECURSIVE NonEmpty(_)
\* the args that pass the len(arg) > 0 test, in list order
NonEmpty(l) ==
    IF Len(l) = 0 THEN << >>
    ELSE (IF Len(l[1]) > 0 THEN << l[1] >> ELSE << >>) \o NonEmpty(Tail(l))

\* params that end with the current text whatever the attempt was
Params_AlwaysCurrent(s) == NonEmpty(s.args) \o << s.current.text >>

\* params of the terminal branch of stack.search
Params(s) ==
    NonEmpty(s.args) \o
        (IF s.current.times > 1 THEN << s.current.text >> ELSE << >>)

\* the end of stack.search: the child found under the key
found(T, s, node) ==
    IF Len(s.queue) = 0
    THEN Return(T[node].val, Params(s), "terminal")
    ELSE Continue(next(s, node))

\* stack.node.nodes[key] of stack.search and what follows it
lookup(T, s, key) ==
    IF s.node = Nil
    THEN Panic(s)
    ELSE IF key \in DOMAIN T[s.node].nodes
    THEN found(T, s, T[s.node].nodes[key])
    ELSE Continue(s)

\* stack.search after its for loop has left times, key and err in f
resolved(T, s, f) ==
    IF f.err /\ Len(s.history) = 0
    THEN Return(NoVal, << >>, "exhausted")
    ELSE IF f.err /\ backPanics(s)
    THEN Panic(s)
    ELSE lookup(T, IF f.err THEN back(T, s) ELSE s, f.key)

\* the for loop of stack.search: stack.current.times and the key it leaves
loop(s) == fallbackLoop(s.current.text, s.current.times + 1)

\* one call of (stack *stack) search(), up to its return or its recursive call
stackSearch(T, s) ==
    resolved(T, [s EXCEPT !.current.times = loop(s).times], loop(s))

(***************************************************************************)
(* State.                                                                  *)
(***************************************************************************)
VARIABLES
    tree,     \* the endpoint objects of one handler collection
    calls,    \* calls[p]: how many times the host has called Add(p, ...)
    added,    \* added[p]: the handler of the Add(p, ...) that returned nil
    lastAdd,  \* path, handler and returned error of the latest Add
    pc,       \* "idle", "searching", "returned" or "panicked"
    req,      \* the path given to the Search in progress
    stk,      \* the stack object of the Search in progress
    ret,      \* what Search returned
    seen,     \* the cursor states the Search in progress has been in
    probe,    \* a call of the classifier on its own: its input and result
    lookups,  \* the Search calls of concurrently served requests
    host,     \* a Host: its handler collections and its errList
    ctx,      \* a Context: its statuscode and what its writer was given
    srv       \* a Host with middlewares and the request ServeHTTP is serving

vars == << tree, calls, added, lastAdd, pc, req, stk, ret, seen,
           probe, lookups, host, ctx, srv >>

\* the state of one handler collection and of the request served on it
router == << tree, calls, added, lastAdd, pc, req, stk, ret, seen >>
\* the state that the operations on one collection leave alone
aside == << probe, lookups, host, ctx, srv >>

NoAdd == [path |-> "", value |-> NoVal, err |-> FALSE, made |-> FALSE]
NoStack == [current |-> [text |-> "", times |-> 0], node |-> Nil,
            history |-> << >>, queue |-> << >>, args |-> << >>]
NoRet == [value |-> NoVal, args |-> << >>, how |-> "none"]
\* no classifier call, no concurrent request, no host, no context
NoProbe == [text |-> "", times |-> 0, key |-> "", err |-> FALSE,
            done |-> FALSE]
NoLookups == << >>
NoHost == [handlers |-> EmptyMap, errList |-> << >>, routes |-> {},
           calls |-> 0, op |-> "none", err |-> FALSE, dup |-> FALSE]
NoContext == [statuscode |-> 0, header |-> << >>, body |-> 0,
              calls |-> 0, op |-> "none", err |-> FALSE]

\* a nil httpHandler
NilHandler == [kind |-> "nil"]

\* no serving host: no collection, no middleware, no request
NoServe == [lower |-> FALSE, handlers |-> EmptyMap, table |-> EmptyMap,
            built |-> EmptyMap, global |-> NilHandler, mstack |-> << >>,
            uses |-> << >>, errList |-> 0, setups |-> 0,
            pc |-> "idle", method |-> "", path |-> "", stk |-> NoStack,
            found |-> NoRet, run |-> NilHandler, layer |-> NilHandler,
            args |-> << >>, log |-> << >>]

TotalCalls == LET RECURSIVE Sum(_)
                  Sum(S) == IF S = {} THEN 0
                            ELSE LET p == CHOOSE q \in S : TRUE
                                 IN  calls[p] + Sum(S \ {p})
              IN  Sum(DOMAIN calls)

\* the handler of the k-th Add of a path: each call passes a new closure
Handler(path, k) == << path, k >>

Init ==
    /\ tree = [id \in {Root} |-> NewEndpoint(Nil, NoVal, FALSE)]
    /\ calls = [p \in RoutePool |-> 0]
    /\ added = [p \in {} |-> NoVal]
    /\ lastAdd = NoAdd
    /\ pc = "idle"
    /\ req = ""
    /\ stk = NoStack
    /\ ret = NoRet
    /\ seen = {}
    /\ probe = NoProbe
    /\ lookups = NoLookups
    /\ host = NoHost
    /\ ctx = NoContext
    /\ srv = NoServe

\* the host registers a route: host.handlers[method].Add(path, pipeline(...))
DoAdd(path) ==
    /\ pc = "idle"
    /\ TotalCalls < MaxAdds
    /\ LET value == Handler(path, calls[path] + 1)
           r == Add(tree, path, value)
       IN  /\ tree' = r.tree
           /\ calls' = [calls EXCEPT ![path] = @ + 1]
           /\ added' = IF r.err THEN added ELSE MapPut(added, path, value)
           /\ lastAdd' = [path |-> path, value |-> value, err |-> r.err,
                          made |-> TRUE]
    /\ UNCHANGED << pc, req, stk, ret, seen >>
    /\ UNCHANGED aside

\* what the state becomes after a call whose outcome is o
Outcome(o) ==
    /\ pc' = CASE o.kind = "return" -> "returned"
               [] o.kind = "panic" -> "panicked"
               [] OTHER -> "searching"
    /\ stk' = IF o.kind = "return" THEN stk ELSE o.stk
    /\ ret' = IF o.kind = "return"
              THEN [value |-> o.value, args |-> o.args, how |-> o.how]
              ELSE ret

\* the cursor of a stack object: its node, its current frame with the
\* attempt count, its history and its queue
Cursor(s) == [node |-> s.node, current |-> s.current,
              history |-> s.history, queue |-> s.queue]

\* Host.ServeHTTP calls collection.Search(path)
BeginSearch(path) ==
    /\ pc = "idle"
    /\ req' = path
    /\ LET o == Search(tree, path)
       IN  /\ pc' = IF o.kind = "return" THEN "returned" ELSE "searching"
           /\ stk' = IF o.kind = "return" THEN NoStack ELSE o.stk
           /\ ret' = IF o.kind = "return"
                     THEN [value |-> o.value, args |-> o.args, how |-> o.how]
                     ELSE NoRet
    /\ seen' = {}
    /\ UNCHANGED << tree, calls, added, lastAdd >>
    /\ UNCHANGED aside

\* one call of stack.search
SearchStep ==
    /\ pc = "searching"
    /\ Outcome(stackSearch(tree, stk))
    /\ seen' = seen \cup { Cursor(stk) }
    /\ UNCHANGED << tree, calls, added, lastAdd, req >>
    /\ UNCHANGED aside

\* the request is over (Search returned, or the panic unwound the request's
\* goroutine); the stack object is garbage
EndSearch ==
    /\ pc \in {"returned", "panicked"}
    /\ pc' = "idle"
    /\ req' = ""
    /\ stk' = NoStack
    /\ ret' = NoRet
    /\ seen' = {}
    /\ UNCHANGED << tree, calls, added, lastAdd >>
    /\ UNCHANGED aside

Next ==
    \/ \E p \in RoutePool : DoAdd(p)
    \/ \E r \in RequestPool : BeginSearch(r)
    \/ SearchStep
    \/ EndSearch

Spec == Init /\ [][Next]_vars

(***************************************************************************)
(* Vocabulary of the properties: the registered routes and the request,    *)
(* read as key and segment lists.                                          *)
(***************************************************************************)
Tokens == {"{digits}", "{float}", "{bool}", "{string}"}

\* the keys of a registered path and the segments of a request path; the
\* empty path counts as the single empty segment
KeysOf(path) ==
    LET p == Rest(Split(path)) IN IF Len(p) = 0 THEN << "" >> ELSE p

Segs == KeysOf(req)

\* the typed token of a text under the default classifier ("" if none)
TypedToken(text) == defaultFallback(text, 1).key

\* preference of a key for a segment text: 0 the literal text, 1 its typed
\* token, 2 {string}, 3 the key does not admit the text
Rank(key, text) ==
    IF key = text THEN 0
    ELSE IF key = TypedToken(text) THEN 1
    ELSE IF key = "{string}" THEN 2
    ELSE 3

Admits(path, segs) ==
    LET k == KeysOf(path)
    IN  /\ Len(k) = Len(segs)
        /\ \A i \in 1..Len(k) : Rank(k[i], segs[i]) < 3

\* the registered routes that complete the match of the request
Matching == { p \in DOMAIN added : Admits(p, Segs) }

SamePrefix(p, q, n) ==
    /\ Len(KeysOf(p)) >= n /\ Len(KeysOf(q)) >= n
    /\ SubSeq(KeysOf(p), 1, n) = SubSeq(KeysOf(q), 1, n)

\* p comes before q in depth-first preference order
Before(p, q) ==
    \E i \in 1..Len(Segs) :
        /\ SamePrefix(p, q, i - 1)
        /\ Rank(KeysOf(p)[i], Segs[i]) < Rank(KeysOf(q)[i], Segs[i])

First == CHOOSE p \in Matching : \A q \in Matching \ {p} : Before(p, q)

RECURSIVE Pick(_, _, _)
\* the texts segs[i], in order, of the positions i >= from that satisfy keep
Pick(segs, keep, from) ==
    IF from > Len(segs) THEN << >>
    ELSE (IF keep[from] THEN << segs[from] >> ELSE << >>)
            \o Pick(segs, keep, from + 1)

\* the texts of the segments that the route p matches through a wildcard
WildArgs(p) ==
    Pick(Segs, [i \in 1..Len(Segs) |->
                    i <= Len(KeysOf(p)) /\ KeysOf(p)[i] \in Tokens
                    /\ KeysOf(p)[i] # Segs[i]], 1)

\* the texts of the segments that stand at a wildcard key of the route p
TokenArgs(p) ==
    Pick(Segs, [i \in 1..Len(Segs) |->
                    i <= Len(KeysOf(p)) /\ KeysOf(p)[i] \in Tokens], 1)

\* the registered routes whose handler Search returned
Returned == { p \in DOMAIN added : added[p] = ret.value }

Found == pc = "returned" /\ ret.value # NoVal

(***************************************************************************)
(* C1.  Backtracking correctness: whenever some registered route completes *)
(* the match of the request, Search returns the handler of the first such  *)
(* route in depth-first preference order (literal, typed token, {string}   *)
(* at each depth) and the texts of the segments it matched by wildcards.   *)
(***************************************************************************)
C1_BacktrackingCorrect ==
    (pc \in {"returned", "panicked"} /\ Matching # {}) =>
        /\ pc = "returned"
        /\ ret.value = added[First]
        /\ ret.args = WildArgs(First)

(***************************************************************************)
(* C2.  No false match: Search returns a handler only if it is the handler *)
(* of a registered route that has as many keys as the request has segments *)
(* and whose every key is the segment's text, its typed token or {string}. *)
(***************************************************************************)
C2_NoFalseMatch ==
    Found => \E p \in Matching : added[p] = ret.value

(***************************************************************************)
(* C3.  Insert/Lookup round trip: Search of a registered literal path      *)
(* returns the handler it was registered with and no captured args.        *)
(***************************************************************************)
C3_LiteralRoundTrip ==
    (pc = "returned" /\ req \in DOMAIN added /\ ~IsWildcardPath(req)) =>
        /\ ret.value = added[req]
        /\ ret.args = << >>

\* a registered literal path was looked up while a wildcard route that
\* shares its first segment was registered as well
C3_Witness ==
    /\ pc = "returned"
    /\ req = "/a/b"
    /\ req \in DOMAIN added
    /\ \E q \in DOMAIN added : IsWildcardPath(q) /\ KeysOf(q)[1] = "a"
    /\ ret.value = added[req]

(***************************************************************************)
(* C4.  Wildcard precedence: when routes through {digits} and through      *)
(* {string} below the same node both complete the match, integer text is   *)
(* resolved through {digits} and never through {string}; a segment a       *)
(* returned route resolves through {digits} is integer text.               *)
(***************************************************************************)
BothComplete(prefix, i) ==
    /\ TypedToken(Segs[i]) = "{digits}"
    /\ \E q \in Matching : SamePrefix(q, prefix, i - 1)
                           /\ KeysOf(q)[i] = "{digits}"
    /\ \E q \in Matching : SamePrefix(q, prefix, i - 1)
                           /\ KeysOf(q)[i] = "{string}"

\* {digits} and {string} are both keys below the node that prefix leads to
Siblings(prefix, i) ==
    /\ \E q \in DOMAIN added : SamePrefix(q, prefix, i - 1)
                                /\ Len(KeysOf(q)) >= i /\ KeysOf(q)[i] = "{digits}"
    /\ \E q \in DOMAIN added : SamePrefix(q, prefix, i - 1)
                                /\ Len(KeysOf(q)) >= i /\ KeysOf(q)[i] = "{string}"

C4_DigitsBeforeString ==
    /\ (pc \in {"returned", "panicked"} /\ BothComplete("", 1)) => Found
    /\ Found =>
         \A p \in Returned : \A i \in 1..Len(Segs) :
            /\ (Len(KeysOf(p)) >= i /\ BothComplete(p, i))
                   => KeysOf(p)[i] # "{string}"
            /\ (Len(KeysOf(p)) >= i /\ Siblings(p, i)
                    /\ TypedToken(Segs[i]) # "{digits}" /\ Segs[i] # "{digits}")
                   => KeysOf(p)[i] # "{digits}"

(***************************************************************************)
(* C5.  Literal priority: when a route through the child spelt like the    *)
(* segment's text completes the match, the returned route goes through     *)
(* that child and not through a wildcard sibling, and the text of a        *)
(* literally matched segment is not among the captured args.               *)
(***************************************************************************)
LiteralCompletes(prefix, i) ==
    \E q \in Matching : SamePrefix(q, prefix, i - 1) /\ KeysOf(q)[i] = Segs[i]

C5_LiteralPriority ==
    /\ (pc \in {"returned", "panicked"} /\ LiteralCompletes("", 1)) => Found
    /\ Found =>
         \A p \in Returned : \A i \in 1..Len(Segs) :
            (Len(KeysOf(p)) >= i /\ LiteralCompletes(p, i)) =>
                /\ KeysOf(p)[i] = Segs[i]
                /\ \A j \in 1..Len(ret.args) :
                      ret.args[j] = Segs[i] =>
                          \E k \in 1..Len(Segs) :
                              /\ Segs[k] = Segs[i]
                              /\ k <= Len(KeysOf(p))
                              /\ KeysOf(p)[k] \in Tokens

(***************************************************************************)
(* C6.  Captured-args content: the returned args are exactly the texts of  *)
(* the request segments that the returned route resolves through a         *)
(* wildcard token, one entry per such segment, empty texts included.       *)
(***************************************************************************)
C6_ArgsContent ==
    Found => \A p \in Returned : ret.args \in {WildArgs(p), TokenArgs(p)}

(***************************************************************************)
(* C7.  Argument order: the captured args occur in the request path in     *)
(* the order in which they are returned.                                   *)
(***************************************************************************)
RECURSIVE IsSubsequence(_, _)
IsSubsequence(a, b) ==
    IF Len(a) = 0 THEN TRUE
    ELSE IF Len(b) = 0 THEN FALSE
    ELSE IF a[1] = b[1] THEN IsSubsequence(Tail(a), Tail(b))
    ELSE IsSubsequence(a, Tail(b))

C7_ArgsInPathOrder ==
    Found => IsSubsequence(ret.args, Segs)

(***************************************************************************)
(* C8.  Duplicate registration rejected: an Add of a path that was already *)
(* registered returns an error and changes no stored value, and a later    *)
(* Search of that path returns the handler of the first registration.      *)
(***************************************************************************)
C8_DuplicateStep ==
    /\ (calls' # calls /\ lastAdd'.path \in DOMAIN added) =>
          /\ lastAdd'.err
          /\ added' = added
          /\ \A id \in DOMAIN tree : tree'[id].val = tree[id].val
          /\ \A id \in DOMAIN tree' \ DOMAIN tree : tree'[id].val = NoVal
    /\ (pc' = "returned" /\ req' \in DOMAIN added') =>
          ret'.value = Handler(req', 1)

C8_DuplicateRejected == [][C8_DuplicateStep]_vars

\* a path was registered twice (the second Add failed) and then looked up
C8_Witness ==
    /\ pc = "returned"
    /\ req \in DOMAIN added
    /\ IsWildcardPath(req)
    /\ calls[req] = 2
    /\ lastAdd.path = req /\ lastAdd.err
    /\ ret.value = Handler(req, 1)

(***************************************************************************)
(* C9.  Lookup never fails abnormally: no Search panics.                   *)
(***************************************************************************)
C9_NoPanic == pc # "panicked"

(***************************************************************************)
(* C10.  Valueless terminal falls back to backtracking: Search does not    *)
(* give up at a child without value that the last segment resolved to      *)
(* while a registered route completes the match.                           *)
(***************************************************************************)
C10_ValuelessTerminalBacktracks ==
    (pc = "returned" /\ ret.how = "terminal" /\ ret.value = NoVal) =>
        Matching = {}
(***************************************************************************)
(* C11.  A terminal node must carry a value: a request whose segments are  *)
(* all consumed at a node that has children but no value of its own is not *)
(* reported as a match; the handler Search returns is never the handler of *)
(* a route that goes on below the node where the request ends.             *)
(***************************************************************************)
C11_TerminalNeedsValue ==
    pc = "returned" =>
        /\ \A p \in Returned : Len(KeysOf(p)) = Len(Segs)
        /\ (\A p \in DOMAIN added : Len(KeysOf(p)) # Len(Segs))
                => ret.value = NoVal

\* the segments of "/42" were consumed at the node of {digits}, which has
\* the wildcard child {bool} and the literal child true but no value, and
\* Search returned nil
C11_Witness ==
    /\ pc = "returned"
    /\ req = "/42"
    /\ { "/{digits}/{bool}/c", "/{digits}/true/x" } \subseteq DOMAIN added
    /\ ret.how = "terminal"
    /\ ret.value = NoVal

(***************************************************************************)
(* The classifier on its own: defaultFallback applied once to a text and   *)
(* an attempt number.                                                      *)
(***************************************************************************)
\* segment texts: integers (signed, padded, at the ends of int64 and
\* beyond), floats (fraction, exponent, integral value, out of range,
\* words), the boolean words and texts of no type
TextPool ==
    { "42", "7", "-7", "+5", "0", "007",
      "9223372036854775807", "-9223372036854775808",
      "9223372036854775808", "99999999999999999999",
      "42.5", "-0.5", ".5", "1e-1",
      "42.0", "5.", "1e2", "1E400", "inf", "NaN",
      "true", "FALSE", "True", "hello", "a", "", "4a", "-", ".", "1e" }

\* the attempt numbers stack.search passes to the fallback: times - 1 for
\* times 2, 3 and 4, the last of which ends the loop with an error
Attempts == 1..3

ClassifyInit ==
    /\ tree = [id \in {Root} |-> NewEndpoint(Nil, NoVal, FALSE)]
    /\ calls = [p \in RoutePool |-> 0]
    /\ added = [p \in {} |-> NoVal]
    /\ lastAdd = NoAdd
    /\ pc = "idle"
    /\ req = ""
    /\ stk = NoStack
    /\ ret = NoRet
    /\ seen = {}
    /\ probe \in { [NoProbe EXCEPT !.text = t, !.times = n] :
                        t \in TextPool, n \in Attempts }
    /\ lookups = NoLookups
    /\ host = NoHost
    /\ ctx = NoContext
    /\ srv = NoServe

\* key, err = stack.fallback(text, times)
Classify ==
    /\ ~probe.done
    /\ probe' = [probe EXCEPT
                    !.key = defaultFallback(probe.text, probe.times).key,
                    !.err = defaultFallback(probe.text, probe.times).err,
                    !.done = TRUE]
    /\ UNCHANGED << router, lookups, host, ctx, srv >>

ClassifyNext == Classify

ClassifySpec == ClassifyInit /\ [][ClassifyNext]_vars

\* texts of the pool that are base-10 integers of 64 bits, and texts that
\* are floating-point numbers without being such integers; among these,
\* the texts whose value has a non-zero fraction
IntegerTexts ==
    { "42", "7", "-7", "+5", "0", "007",
      "9223372036854775807", "-9223372036854775808" }
FractionTexts == { "42.5", "-0.5", ".5", "1e-1" }
FloatOnlyTexts ==
    FractionTexts \cup
        { "42.0", "5.", "1e2", "inf", "NaN",
          "9223372036854775808", "99999999999999999999" }

(***************************************************************************)
(* C12.  Digits and float classification: on the first fallback attempt    *)
(* the default classifier returns {digits} for every text that parses as a *)
(* base-10 integer and {float} for every text that parses as a float but   *)
(* not as an integer; it returns neither {float} for an integer text nor   *)
(* {digits} for a text with a non-zero fraction.                           *)
(***************************************************************************)
C12_DigitsAndFloat ==
    (probe.done /\ probe.times = 1) =>
        /\ ~probe.err
        /\ probe.text \in IntegerTexts => probe.key = "{digits}"
        /\ probe.text \in FloatOnlyTexts => probe.key = "{float}"
        /\ probe.key = "{float}" => probe.text \notin IntegerTexts
        /\ probe.key = "{digits}" => probe.text \notin FractionTexts

\* the classifier has answered for a text with a fraction
C12_Witness ==
    /\ probe.done /\ probe.times = 1
    /\ probe.text = "42.5"
    /\ probe.key = "{float}"

(***************************************************************************)
(* Vocabulary of the claims about one attempt of the Search in progress.   *)
(***************************************************************************)
\* the keys of the children of the node the cursor stands at
Children == DOMAIN tree[stk.node].nodes

\* the next call of stack.search makes attempt number times + 1 on the
\* current segment, whose text has no literal child at the cursor's node
Attempting(times) ==
    /\ pc = "searching"
    /\ stk.node # Nil
    /\ stk.current.times = times
    /\ stk.current.text \notin Children

\* the step resolves the current segment through the child under key, as a
\* wildcard: it returns that child's value, or commits the frame and
\* descends into the child; either way the text is captured
Through(key) ==
    IF Len(stk.queue) = 0
    THEN /\ pc' = "returned"
         /\ ret'.how = "terminal"
         /\ ret'.value = tree[tree[stk.node].nodes[key]].val
         /\ Len(ret'.args) > 0
         /\ Back(ret'.args) = stk.current.text
    ELSE /\ pc' = "searching"
         /\ stk'.node = tree[stk.node].nodes[key]
         /\ Front(stk'.history).text = stk.current.text
         /\ Back(stk'.args) = stk.current.text

\* the step leaves the cursor where it is, after attempt number times
Stays(times) ==
    /\ pc' = "searching"
    /\ stk'.node = stk.node
    /\ stk'.current = [text |-> stk.current.text, times |-> times]
    /\ stk'.history = stk.history

\* float texts of integral value that are not integer texts
IntegralFloatTexts == { "42.0" }

\* C13 as the specification states it: a segment "42.0" with no literal
\* child is resolved through the {digits} child of the node
C13_IntegralFloatIsDigits ==
    [][ ( /\ Attempting(1)
          /\ stk.current.text \in IntegralFloatTexts
          /\ "{digits}" \in Children )
        => Through("{digits}") ]_vars

(***************************************************************************)
(* C13.  Integral-valued float text (amended): on the first fallback       *)
(* attempt a segment such as "42.0", which parses as a float but not as a  *)
(* base-10 integer, is classified {float}: it is resolved through the      *)
(* {float} child of the node if there is one, and otherwise the attempt    *)
(* fails and the cursor stays; it is not resolved through {digits}.        *)
(***************************************************************************)
C13_IntegralFloatIsFloat ==
    [][ ( /\ Attempting(1)
          /\ stk.current.text \in IntegralFloatTexts )
        => IF "{float}" \in Children
           THEN Through("{float}")
           ELSE Stays(2) ]_vars

\* "/a/42.0" was looked up with "/a/{float}" and "/a/{digits}/x"
\* registered and was answered by the {float} route, capturing "42.0"
C13_Witness ==
    /\ pc = "returned"
    /\ req = "/a/42.0"
    /\ { "/a/{float}", "/a/{digits}/x" } \subseteq DOMAIN added
    /\ ret.how = "terminal"
    /\ ret.value = added["/a/{float}"]
    /\ ret.args = << "42.0" >>

\* the texts that are "true" or "false" when case is ignored
IsBoolText(text) == ToLower(text) \in { "true", "false" }

(***************************************************************************)
(* C14.  Boolean classification: a segment that is, case-insensitively,    *)
(* "true" or "false" and has no literal child at the node is resolved      *)
(* through the {bool} child when the node has one; when it has none the    *)
(* typed attempt fails and the next attempt resolves the segment through   *)
(* the {string} child when the node has one.                               *)
(***************************************************************************)
C14_BoolThenString ==
    [][ /\ ( Attempting(1) /\ IsBoolText(stk.current.text) )
            => IF "{bool}" \in Children
               THEN Through("{bool}")
               ELSE Stays(2)
        /\ ( /\ Attempting(2) /\ IsBoolText(stk.current.text)
              /\ "{bool}" \notin Children /\ "{string}" \in Children )
            => Through("{string}") ]_vars

\* "/42/FALSE/c" went through {digits} and {bool}, "FALSE" captured
C14_Witness ==
    /\ pc = "returned"
    /\ req = "/42/FALSE/c"
    /\ DOMAIN added = { "/{digits}/{bool}/c" }
    /\ ret.value = added["/{digits}/{bool}/c"]
    /\ ret.args = << "42", "FALSE" >>

(***************************************************************************)
(* The root route.                                                         *)
(***************************************************************************)
\* solveBasePath(path) of the host: a leading slash is supplied, a trailing
\* slash is cut
solveBasePath(path) ==
    LET p == IF Len(path) = 0 \/ Char(path, 1) # "/"
             THEN "/" \o path ELSE path
    IN  IF Len(p) > 0 /\ Char(p, Len(p)) = "/"
        THEN SubSeq(p, 1, Len(p) - 1)
        ELSE p

\* the path under which the host stores the route "/" (no base path)
RootRoute == solveBasePath("/")

(***************************************************************************)
(* C15.  Root special case: the host stores the bare "/" route as the      *)
(* empty path, an empty request path is a single empty segment, and once   *)
(* the root route is registered the lookup of "" and of "/" returns the    *)
(* root route's handler with no captured args.                             *)
(***************************************************************************)
C15_RootRoute ==
    /\ RootRoute = ""
    /\ endpointSearch(Rest(Split(""))) = endpointSearch(<< "" >>)
    /\ (pc = "returned" /\ req \in { "", "/" } /\ RootRoute \in DOMAIN added)
            => /\ ret.value = added[RootRoute]
               /\ ret.args = << >>

\* "/" was looked up after the root route and another route were
\* registered, and the cursor found the root route under the empty key
C15_Witness ==
    /\ pc = "returned"
    /\ req = "/"
    /\ RootRoute \in DOMAIN added
    /\ Cardinality(DOMAIN added) > 1
    /\ ret.how = "terminal"
    /\ ret.value = added[RootRoute]

(***************************************************************************)
(* Concurrent lookups: the host serves each request on its own goroutine,  *)
(* and each Search call makes its own stack object; the calls of stack.    *)
(* search of different requests interleave on one collection that no Add   *)
(* touches any more.                                                       *)
(***************************************************************************)
Callers == 1..MaxCallers

\* the route lists registered, in order, before the requests are served
ConcRoutes ==
    { << "/a/{digits}/x", "/a/{string}/y", "/{digits}/{bool}/c" >>,
      << "", "/a/b", "/a/{string}" >>,
      << "/{digits}/true/x", "/{string}/{string}/c", "/a/b", "/a/b" >> }

\* the request paths of the concurrent requests
ConcRequests == { "/a/42/y", "/", "/a/b", "//a", "/42/true/c" }

\* a collection before its first Add
NewCollection ==
    [tree    |-> [id \in {Root} |-> NewEndpoint(Nil, NoVal, FALSE)],
     calls   |-> [p \in RoutePool |-> 0],
     added   |-> [p \in {} |-> NoVal],
     lastAdd |-> NoAdd]

\* the collection c after Add(path, value) has returned r
AddedTo(c, path, value, r) ==
    [tree    |-> r.tree,
     calls   |-> [c.calls EXCEPT ![path] = @ + 1],
     added   |-> IF r.err THEN c.added ELSE MapPut(c.added, path, value),
     lastAdd |-> [path |-> path, value |-> value, err |-> r.err,
                  made |-> TRUE]]

RECURSIVE RegisterAll(_, _)
\* the collection c after the routes of seq have been added in order
RegisterAll(c, seq) ==
    IF Len(seq) = 0 THEN c
    ELSE RegisterAll(
            AddedTo(c, seq[1], Handler(seq[1], c.calls[seq[1]] + 1),
                    Add(c.tree, seq[1], Handler(seq[1], c.calls[seq[1]] + 1))),
            Tail(seq))

\* a request that has not called Search
IdleLookup == [pc |-> "idle", req |-> "", stk |-> NoStack, ret |-> NoRet]

ConcInit ==
    /\ \E rs \in ConcRoutes :
            /\ tree = RegisterAll(NewCollection, rs).tree
            /\ calls = RegisterAll(NewCollection, rs).calls
            /\ added = RegisterAll(NewCollection, rs).added
            /\ lastAdd = RegisterAll(NewCollection, rs).lastAdd
    /\ pc = "idle"
    /\ req = ""
    /\ stk = NoStack
    /\ ret = NoRet
    /\ seen = {}
    /\ probe = NoProbe
    /\ lookups = [c \in Callers |-> IdleLookup]
    /\ host = NoHost
    /\ ctx = NoContext
    /\ srv = NoServe

\* the request l after a call of Search or stack.search with outcome o
After(l, o) ==
    [pc  |-> CASE o.kind = "return" -> "returned"
               [] o.kind = "panic" -> "panicked"
               [] OTHER -> "searching",
     req |-> l.req,
     stk |-> IF o.kind = "return" THEN l.stk ELSE o.stk,
     ret |-> IF o.kind = "return"
             THEN [value |-> o.value, args |-> o.args, how |-> o.how]
             ELSE l.ret]

\* request c calls collection.Search(path)
LookupBegin(c, path) ==
    /\ lookups[c].pc = "idle"
    /\ lookups' = [lookups EXCEPT
                        ![c] = After([IdleLookup EXCEPT !.req = path],
                                     Search(tree, path))]
    /\ UNCHANGED << router, probe, host, ctx, srv >>

\* one call of stack.search of every request, all on one shared stack
\* object: the cursor request c leaves is the cursor of all of them
LookupStep_SharedCursor(c) ==
    /\ lookups[c].pc = "searching"
    /\ lookups' =
            [d \in Callers |->
                IF d = c
                THEN After(lookups[c], stackSearch(tree, lookups[c].stk))
                ELSE IF lookups[d].pc = "searching"
                THEN [lookups[d] EXCEPT !.stk =
                        After(lookups[c],
                              stackSearch(tree, lookups[c].stk)).stk]
                ELSE lookups[d]]
    /\ UNCHANGED << router, probe, host, ctx, srv >>

\* one call of stack.search of request c, on its own stack object
LookupStep(c) ==
    /\ lookups[c].pc = "searching"
    /\ lookups' = [lookups EXCEPT
                        ![c] = After(lookups[c],
                                     stackSearch(tree, lookups[c].stk))]
    /\ UNCHANGED << router, probe, host, ctx, srv >>

\* request c is over
LookupEnd(c) ==
    /\ lookups[c].pc \in {"returned", "panicked"}
    /\ lookups' = [lookups EXCEPT ![c] = IdleLookup]
    /\ UNCHANGED << router, probe, host, ctx, srv >>

ConcNext ==
    \E c \in Callers :
        \/ \E r \in ConcRequests : LookupBegin(c, r)
        \/ LookupStep(c)
        \/ LookupEnd(c)

ConcSpec == ConcInit /\ [][ConcNext]_vars

RECURSIVE Run(_, _)
\* the outcome of a Search that runs alone from the outcome o on
Run(T, o) == IF o.kind = "continue" THEN Run(T, stackSearch(T, o.stk)) ELSE o

\* the request l ended as its Search does when no other request is served
SameAsAlone(T, l) ==
    IF l.pc = "panicked"
    THEN Run(T, Search(T, l.req)).kind = "panic"
    ELSE /\ Run(T, Search(T, l.req)).kind = "return"
         /\ l.ret.value = Run(T, Search(T, l.req)).value
         /\ l.ret.args = Run(T, Search(T, l.req)).args

(***************************************************************************)
(* C16.  Concurrent lookups are isolated: whatever the interleaving of the *)
(* steps of several Search calls on a trie that is not being mutated, each *)
(* call ends (at the step that ends it) with the value and args it ends    *)
(* with when it runs alone, and no step changes a node's children, value   *)
(* or prior.                                                               *)
(***************************************************************************)
C16_LookupsIsolated ==
    [][ /\ tree' = tree
        /\ \A c \in Callers :
                ( /\ lookups'[c] # lookups[c]
                  /\ lookups'[c].pc \in {"returned", "panicked"} )
                    => SameAsAlone(tree, lookups'[c]) ]_vars

\* two requests for different paths have both returned a handler, each
\* after steps of its own cursor
C16_Witness ==
    /\ lookups # NoLookups
    /\ \E c, d \in Callers :
            /\ c # d
            /\ lookups[c].pc = "returned" /\ lookups[d].pc = "returned"
            /\ lookups[c].req # lookups[d].req
            /\ lookups[c].ret.how = "terminal"
            /\ lookups[d].ret.how = "terminal"
            /\ lookups[c].ret.value # NoVal
            /\ lookups[d].ret.value # NoVal

(***************************************************************************)
(* C17.  Lookup is bounded: for every trie built by Add (routes with empty *)
(* segments included) and every request, no cursor state (node, current    *)
(* frame with its attempt count, history, queue) is reached twice by one   *)
(* Search, so the Search ends after finitely many calls of stack.search.   *)
(***************************************************************************)
C17_NoCursorTwice == pc = "searching" => Cursor(stk) \notin seen

(***************************************************************************)
(* The host: Register and AddEndpoint on host.handlers and host.errList.   *)
(* host.routes (the (method, path) pairs whose Add returned nil), host.    *)
(* calls, host.op, host.err and host.dup record the calls made: the latest *)
(* operation, the error it returned and whether one of its Add calls was   *)
(* for a pair already in host.routes.                                      *)
(***************************************************************************)
\* a controller method as getMethodArguments and getMethodPath present it:
\* the HTTP methods in the order the range over the map visits them, each
\* with the paths (the first, then the aliases) it is registered under
Serve(option, paths) == << [option |-> option, paths |-> paths] >>

\* controllers: their open methods in reflection order
ControllerPool ==
    { [name |-> "A", methods |-> << Serve("GET", << "/c/x" >>),
                                    Serve("GET", << "/c/y" >>) >>],
      [name |-> "B", methods |-> << Serve("POST", << "/c/x" >>),
                                    Serve("GET", << "/c/x" >>),
                                    Serve("GET", << "/c/{digits}" >>) >>],
      [name |-> "C", methods |-> << Serve("GET", << "/c/{digits}", "/c/z" >>)
                                        \o Serve("POST", << "/c/z" >>) >>],
      [name |-> "D", methods |-> << Serve("GET", << "/d" >>),
                                    Serve("GET", << "/c/y" >>) >>] }

\* the arguments of AddEndpoint calls
EndpointPool == { << "GET", "/c/x" >>, << "GET", "/" >>, << "POST", "/d/" >> }

\* host.handlers[option], made on first use
Collection(H, option) ==
    IF option \in DOMAIN H THEN H[option] ELSE NewCollection.tree

\* the registration r after host.handlers[option].Add(path, ...) returned
\* a: err is the error of the Add; the error returns from Register unless
\* index > 0, where the loop goes on ("continue")
registerAdd(r, index, option, path, a) ==
    [handlers |-> MapPut(r.handlers, option, a.tree),
     routes   |-> IF a.err THEN r.routes
                  ELSE r.routes \cup { << option, path >> },
     err      |-> a.err,
     dup      |-> r.dup \/ << option, path >> \in r.routes,
     returned |-> a.err /\ ~(index > 0)]

RECURSIVE registerPaths(_, _, _, _, _)
\* for i, path := range paths
registerPaths(r, index, option, paths, value) ==
    IF r.returned \/ Len(paths) = 0 THEN r
    ELSE registerPaths(
            registerAdd(r, index, option, paths[1],
                        Add(Collection(r.handlers, option), paths[1], value)),
            index, option, Tail(paths), value)

RECURSIVE registerOptions(_, _, _, _)
\* for option, paths := range methods
registerOptions(r, index, methods, value) ==
    IF r.returned \/ Len(methods) = 0 THEN r
    ELSE registerOptions(
            registerPaths(r, index, methods[1].option, methods[1].paths,
                          value),
            index, Tail(methods), value)

RECURSIVE registerMethods(_, _, _, _)
\* for index := 0; index < typ.NumMethod(); index++, from method index on;
\* getMethodArguments leaves err nil before the method's paths are added
registerMethods(r, ctrl, index, call) ==
    IF r.returned \/ index >= Len(ctrl.methods) THEN r
    ELSE registerMethods(
            registerOptions([r EXCEPT !.err = FALSE], index,
                            ctrl.methods[index + 1],
                            << ctrl.name, index, call >>),
            ctrl, index + 1, call)

\* the host h after an operation that ended as r: the deferred function
\* appends a non-nil error to host.errList
Registered(h, op, r) ==
    [handlers |-> r.handlers,
     errList  |-> IF r.err THEN Append(h.errList, h.calls + 1) ELSE h.errList,
     routes   |-> r.routes,
     calls    |-> h.calls + 1,
     op       |-> op,
     err      |-> r.err,
     dup      |-> r.dup]

\* what a registration starts from
Registering(h) ==
    [handlers |-> h.handlers, routes |-> h.routes, err |-> FALSE,
     dup |-> FALSE, returned |-> FALSE]

HostInit ==
    /\ tree = [id \in {Root} |-> NewEndpoint(Nil, NoVal, FALSE)]
    /\ calls = [p \in RoutePool |-> 0]
    /\ added = [p \in {} |-> NoVal]
    /\ lastAdd = NoAdd
    /\ pc = "idle"
    /\ req = ""
    /\ stk = NoStack
    /\ ret = NoRet
    /\ seen = {}
    /\ probe = NoProbe
    /\ lookups = NoLookups
    /\ host = NoHost
    /\ ctx = NoContext
    /\ srv = NoServe

\* host.Register(basePath, controller)
Register(ctrl) ==
    /\ host.calls < MaxRegistrations
    /\ host' = Registered(host, "Register",
                          registerMethods(Registering(host), ctrl, 0,
                                          host.calls + 1))
    /\ UNCHANGED << router, probe, lookups, ctx, srv >>

\* host.AddEndpoint(method, path, handler)
AddEndpoint(method, path) ==
    /\ host.calls < MaxRegistrations
    /\ host' = Registered(host, "AddEndpoint",
                    registerAdd(Registering(host), 0, method,
                                solveBasePath(path),
                                Add(Collection(host.handlers, method),
                                    solveBasePath(path),
                                    << "endpoint", 0, host.calls + 1 >>)))
    /\ UNCHANGED << router, probe, lookups, ctx, srv >>

HostNext ==
    \/ \E ctrl \in ControllerPool : Register(ctrl)
    \/ \E e \in EndpointPool : AddEndpoint(e[1], e[2])

HostSpec == HostInit /\ [][HostNext]_vars

(***************************************************************************)
(* C18.  Duplicate controller routes are reported: when one of the (HTTP   *)
(* method, path) pairs that Register produces is already registered,       *)
(* Register returns a non-nil error and appends it to the list that        *)
(* Host.Errors() returns, whichever controller method the pair is of.      *)
(***************************************************************************)
C18_DuplicateReported ==
    [][ (host'.op = "Register" /\ host'.calls # host.calls /\ host'.dup)
        => /\ host'.err
           /\ host'.errList = Append(host.errList, host'.calls) ]_vars

(***************************************************************************)
(* The Context of one request: ctx.statuscode, the status codes given to   *)
(* ctx.w.WriteHeader (ctx.header, in order) and the number of bodies given *)
(* to ctx.w.Write (ctx.body); ctx.calls, ctx.op and ctx.err record the     *)
(* calls made, the latest operation and the error it returned.             *)
(***************************************************************************)
\* http.StatusTemporaryRedirect
StatusTemporaryRedirect == 307

\* the httpstatus arguments of Write and Reply (valid status codes)
StatusPool == { 200, 204, 404, 500 }

\* the obj argument of Reply: none, data that can be written, a struct
\* that the serializer fails to marshal
ObjPool == { "none", "data", "unmarshalable" }

\* the variadic httpstatus argument of Redirect
RedirectPool == { << >>, << 301 >>, << 200 >> }

\* the context c after an operation op that returned err, with the
\* statuscode code, the status codes wrote given to the writer's
\* WriteHeader and bodies more bodies given to its Write
Called(c, op, err, code, wrote, bodies) ==
    [statuscode |-> code,
     header     |-> c.header \o wrote,
     body       |-> c.body + bodies,
     calls      |-> c.calls + 1,
     op         |-> op,
     err        |-> err]

\* (ctx *Context) Write(httpstatus, data), called by op
write(c, op, httpstatus) ==
    IF c.statuscode = 0
    THEN Called(c, op, FALSE, httpstatus, << httpstatus >>, 1)
    ELSE Called(c, op, TRUE, c.statuscode, << >>, 0)

\* the status Redirect uses
redirectStatus(httpstatus) ==
    IF Len(httpstatus) = 0 \/ ~(httpstatus[1] > 299 /\ httpstatus[1] < 400)
    THEN StatusTemporaryRedirect
    ELSE httpstatus[1]

CtxInit ==
    /\ tree = [id \in {Root} |-> NewEndpoint(Nil, NoVal, FALSE)]
    /\ calls = [p \in RoutePool |-> 0]
    /\ added = [p \in {} |-> NoVal]
    /\ lastAdd = NoAdd
    /\ pc = "idle"
    /\ req = ""
    /\ stk = NoStack
    /\ ret = NoRet
    /\ seen = {}
    /\ probe = NoProbe
    /\ lookups = NoLookups
    /\ host = NoHost
    /\ ctx = NoContext
    /\ srv = NoServe

\* ctx.Write(httpstatus, data)
Write(httpstatus) ==
    /\ ctx.calls < MaxReplies
    /\ ctx' = write(ctx, "Write", httpstatus)
    /\ UNCHANGED << router, probe, lookups, host, srv >>

\* ctx.Reply(httpstatus, obj...): a marshalling error returns before Write
Reply(httpstatus, obj) ==
    /\ ctx.calls < MaxReplies
    /\ ctx' = IF obj = "unmarshalable"
              THEN Called(ctx, "Reply", TRUE, ctx.statuscode, << >>, 0)
              ELSE write(ctx, "Reply", httpstatus)
    /\ UNCHANGED << router, probe, lookups, host, srv >>

\* ctx.Redirect(addr, httpstatus...): http.Redirect calls w.WriteHeader
Redirect(httpstatus) ==
    /\ ctx.calls < MaxReplies
    /\ ctx' = Called(ctx, "Redirect", FALSE, redirectStatus(httpstatus),
                     << redirectStatus(httpstatus) >>, 0)
    /\ UNCHANGED << router, probe, lookups, host, srv >>

CtxNext ==
    \/ \E st \in StatusPool : Write(st)
    \/ \E st \in StatusPool, obj \in ObjPool : Reply(st, obj)
    \/ \E st \in RedirectPool : Redirect(st)

CtxSpec == CtxInit /\ [][CtxNext]_vars

(***************************************************************************)
(* C19.  Response written at most once: for any sequence of Reply, Write   *)
(* and Redirect calls on one Context the status is written at most once;   *)
(* once the status code is non-zero it never changes, nothing more is      *)
(* given to the writer, and every later Write or Reply returns an error.   *)
(***************************************************************************)
C19_StatusWrittenOnce ==
    [][ /\ Len(ctx'.header) <= 1
        /\ (ctx.statuscode # 0 /\ ctx'.calls # ctx.calls)
            => /\ ctx'.statuscode = ctx.statuscode
               /\ ctx'.header = ctx.header
               /\ ctx'.body = ctx.body
               /\ ctx'.op \in {"Write", "Reply"} => ctx'.err ]_vars

(***************************************************************************)
(* C20.  Backtrack step: a backtrack pops the most recently committed      *)
(* frame and makes it current with its attempt counter preserved, pushes   *)
(* the exhausted frame onto the front of the queue with its counter reset  *)
(* to 0, and moves the node back to the parent of the node it leaves.      *)
(***************************************************************************)
C20_BacktrackIsLIFO ==
    [][ ( /\ pc = "searching" /\ pc' = "searching"
          /\ loop(stk).err
          /\ Len(stk.history) > 0
          /\ Len(stk'.history) = Len(stk.history) - 1 )
        => /\ stk'.current = Front(stk.history)
           /\ stk'.history = RemoveFront(stk.history)
           /\ stk'.queue =
                PushFront(stk.queue, [text |-> stk.current.text, times |-> 0])
           /\ stk'.node = tree[stk.node].prior ]_vars

RECURSIVE Reverse(_)
Reverse(l) == IF Len(l) = 0 THEN << >> ELSE Append(Reverse(Tail(l)), l[1])

\* the texts of a list of frames, in list order
Texts(l) == [i \in 1..Len(l) |-> l[i].text]

\* the committed frames from the oldest to the newest (next() puts the
\* newest at the front of history), the current frame, the pending queue
Spelt(s) ==
    Reverse(Texts(s.history)) \o << s.current.text >> \o Texts(s.queue)

(***************************************************************************)
(* C21.  Segment order invariant: at every step of a lookup the texts of   *)
(* the committed frames (oldest to newest), of the current frame and of    *)
(* the pending queue spell the segments of the request in their order, and *)
(* the node is as many levels below the root as history has frames.        *)
(***************************************************************************)
C21_SegmentOrder ==
    pc = "searching" =>
        /\ Spelt(stk) = Segs
        /\ stk.node # Nil
        /\ Len(stk.node) = Len(stk.history)

\* a committed frame that has candidate keys left: it was committed on its
\* literal text or its typed token, {string} at least is untried
Untried(frame) == frame.times < 3

(***************************************************************************)
(* C22.  Exhaustion: when the classifier signals exhaustion for the        *)
(* current frame and history is empty Search returns nil, nil at once;     *)
(* when history is not empty the step is a backtrack (no return, no        *)
(* panic); and Search never returns nil while some committed frame has an  *)
(* untried candidate.                                                      *)
(***************************************************************************)
C22_Exhaustion ==
    [][ pc = "searching" =>
          /\ (loop(stk).err /\ Len(stk.history) = 0)
                => /\ pc' = "returned"
                   /\ ret'.value = NoVal
                   /\ ret'.args = << >>
          /\ (loop(stk).err /\ Len(stk.history) > 0)
                => pc' = "searching"
          /\ (pc' = "returned" /\ ret'.value = NoVal)
                => \A i \in 1..Len(stk.history) : ~Untried(stk.history[i])
      ]_vars

\* the routes of the pool of which one is a prefix of the other
PrefixPair == << "/a/{string}", "/a/{string}/b" >>

(***************************************************************************)
(* C23.  Trie only grows: an Add, successful or not, leaves every child    *)
(* key of every node on the node it mapped to and every stored value as it *)
(* was; a node may hold a value and children: "/a/{string}" and            *)
(* "/a/{string}/b" register in either order and both are found.            *)
(***************************************************************************)
C23_TrieOnlyGrows ==
    [][ /\ \A id \in DOMAIN tree :
              /\ id \in DOMAIN tree'
              /\ \A k \in DOMAIN tree[id].nodes :
                      /\ k \in DOMAIN tree'[id].nodes
                      /\ tree'[id].nodes[k] = tree[id].nodes[k]
              /\ tree[id].val # NoVal => tree'[id].val = tree[id].val
              /\ tree'[id].prior = tree[id].prior
        /\ ( /\ calls' # calls
              /\ lastAdd'.path \in { PrefixPair[1], PrefixPair[2] }
              /\ calls'[lastAdd'.path] = 1 )
                => ~lastAdd'.err
        /\ ( /\ pc' = "returned"
              /\ { PrefixPair[1], PrefixPair[2] } \subseteq DOMAIN added' )
                => /\ req' = "/a/True" => ret'.value = added'[PrefixPair[1]]
                   /\ req' = "/a//b" => ret'.value = added'[PrefixPair[2]]
      ]_vars

\* the longer route was registered first, the node of {string} then got
\* its value, and the lookup of the shorter route's path found that value
C23_Witness ==
    /\ pc = "returned"
    /\ req = "/a/True"
    /\ lastAdd.path = PrefixPair[1]
    /\ ~lastAdd.err
    /\ PrefixPair[2] \in DOMAIN added
    /\ ret.value = added[PrefixPair[1]]
    /\ DOMAIN tree[<< "a", "{string}" >>].nodes # {}

(***************************************************************************)
(* C24.  Parent back-reference: every node stored in a node's children map *)
(* has prior equal to the owning node, and only the root has a nil prior.  *)
(***************************************************************************)
C24_PriorIsOwner ==
    /\ \A id \in DOMAIN tree : \A k \in DOMAIN tree[id].nodes :
            tree[tree[id].nodes[k]].prior = id
    /\ \A id \in DOMAIN tree : tree[id].prior = Nil => id = Root

(***************************************************************************)
(* Middlewares and the dispatch of a request.  An httpHandler is nil, the  *)
(* closure AddEndpoint makes of the application's handler, or the          *)
(* complexHandler closure pipeline makes of a middleware and a handler.    *)
(***************************************************************************)
\* the calls of Use and AddEndpoint made while the host is set up
MaxSetup == 2

\* http.StatusNotFound
StatusNotFound == 404

\* the middlewares given to Use and to AddEndpoint
UsePool == { << "m1" >>, << "m1", "m3" >> }
EndpointMiddlewares == { << >>, << "m2" >> }

\* the paths given to AddEndpoint, the methods and paths of the requests
EndpointPaths == { "/", "/a/b", "a/{digits}" }
ServeMethods == { "get", "POST" }
ServePaths == { "/a/b", "/a/42", "//a", "/A/B", "/zz" }

\* what a middleware or a handler of the application replies with: 0 when
\* it does not reply
MiddlewareReplies == { 0, 401 }
HandlerReplies == { 0, 200 }

UpperChar(c) ==
    CASE c = "g" -> "G" [] c = "e" -> "E" [] c = "t" -> "T" [] c = "p" -> "P"
      [] c = "o" -> "O" [] c = "s" -> "S"
      [] OTHER -> c

RECURSIVE ToUpper(_)
\* strings.ToUpper over the letters of the modelled methods
ToUpper(s) == IF s = "" THEN "" ELSE UpperChar(Head(s)) \o ToUpper(Tail(s))

\* func(context *Context, _ ...string) { handler(context) } of AddEndpoint
EndpointHandler(name) == [kind |-> "endpoint", name |-> name]

\* complexHandler of pipeline: it invokes the middleware with a next that
\* runs the handler
complexHandler(middleware, handler) ==
    [kind |-> "complex", middleware |-> middleware, handler |-> handler]

RECURSIVE pipeline_FirstInnermost(_, _)
\* pipeline that wraps the handler in the first middleware first
pipeline_FirstInnermost(handler, middlewares) ==
    IF Len(middlewares) = 0
    THEN handler
    ELSE pipeline_FirstInnermost(complexHandler(middlewares[1], handler),
                                 SubSeq(middlewares, 2, Len(middlewares)))

RECURSIVE pipeline(_, _)
\* pipeline(handler, middlewares...)
pipeline(handler, middlewares) ==
    IF Len(middlewares) = 0
    THEN handler
    ELSE pipeline(complexHandler(middlewares[Len(middlewares)], handler),
                  SubSeq(middlewares, 1, Len(middlewares) - 1))

\* NewHost(conf) without middlewares
NewHost(lower) == [NoServe EXCEPT !.lower = lower,
                                  !.global = pipeline(NilHandler, << >>)]

ServeInit ==
    /\ tree = [id \in {Root} |-> NewEndpoint(Nil, NoVal, FALSE)]
    /\ calls = [p \in RoutePool |-> 0]
    /\ added = [p \in {} |-> NoVal]
    /\ lastAdd = NoAdd
    /\ pc = "idle"
    /\ req = ""
    /\ stk = NoStack
    /\ ret = NoRet
    /\ seen = {}
    /\ probe = NoProbe
    /\ lookups = NoLookups
    /\ host = NoHost
    /\ ctx = NoContext
    /\ srv \in { NewHost(lower) : lower \in BOOLEAN }

\* host.Use(middlewares...)
Use(middlewares) ==
    /\ srv.pc = "idle"
    /\ srv.setups < MaxSetup
    /\ srv' = [srv EXCEPT !.mstack = srv.mstack \o middlewares,
                          !.global = pipeline(srv.global, middlewares),
                          !.uses = Append(@, middlewares),
                          !.setups = @ + 1]
    /\ UNCHANGED << router, probe, lookups, host, ctx >>

\* the host h after host.handlers[method].Add(path, pipeline(closure,
\* middlewares...)) has returned a: the stored value is identified by
\* method and path, table holds the closure, built what it was made of
EndpointAdded(h, method, path, middlewares, a) ==
    [h EXCEPT
       !.handlers = MapPut(@, method, a.tree),
       !.table = IF a.err THEN @
                 ELSE MapPut(@, << method, path >>,
                             pipeline(EndpointHandler(path), middlewares)),
       !.built = IF a.err THEN @
                 ELSE MapPut(@, << method, path >>, middlewares),
       !.errList = IF a.err THEN @ + 1 ELSE @,
       !.setups = @ + 1]

\* host.AddEndpoint(method, path, handler, middlewares...)
AddEndpointWith(method, path, middlewares) ==
    /\ srv.pc = "idle"
    /\ srv.setups < MaxSetup
    /\ srv' = EndpointAdded(srv, method, solveBasePath(path),
                            IF Len(srv.mstack) > 0
                            THEN srv.mstack \o middlewares
                            ELSE middlewares,
                            Add(Collection(srv.handlers, method),
                                solveBasePath(path),
                                << method, solveBasePath(path) >>))
    /\ UNCHANGED << router, probe, lookups, host, ctx >>

\* ServeHTTP after a call of stack.search with the outcome o: the lookup
\* goes on, or its panic ends ServeHTTP, or Search has returned and run and
\* args are set
Dispatch(h, o) ==
    IF o.kind = "panic" THEN [h EXCEPT !.pc = "panicked"]
    ELSE IF o.kind = "continue"
    THEN [h EXCEPT !.pc = "searching", !.stk = o.stk]
    ELSE
    [h EXCEPT !.pc = "run",
              !.found = [value |-> o.value, args |-> o.args, how |-> o.how],
              !.run = IF o.value # NoVal THEN h.table[o.value] ELSE h.global,
              !.layer = IF o.value # NoVal THEN h.table[o.value]
                        ELSE h.global,
              !.args = IF o.value # NoVal THEN o.args ELSE << >>]

\* ServeHTTP up to the call of Search, or up to run when the method has no
\* collection or Search returns at once
ServeHTTP(method, path) ==
    /\ srv.pc = "idle"
    /\ ctx' = NoContext
    /\ srv' = IF ToUpper(method) \notin DOMAIN srv.handlers
              THEN [srv EXCEPT !.method = method, !.path = path,
                               !.pc = "run", !.run = srv.global,
                               !.layer = srv.global, !.args = << >>]
              ELSE Dispatch([srv EXCEPT !.method = method, !.path = path],
                            Search(srv.handlers[ToUpper(method)],
                                   IF srv.lower THEN ToLower(path)
                                   ELSE path))
    /\ UNCHANGED << router, probe, lookups, host >>

\* one call of stack.search for the request; a panic ends ServeHTTP
ServeSearch ==
    /\ srv.pc = "searching"
    /\ srv' = Dispatch(srv, stackSearch(srv.handlers[ToUpper(srv.method)],
                                        srv.stk))
    /\ UNCHANGED << router, probe, lookups, host, ctx >>

\* what ran: a middleware (next: whether it called next) or a handler of
\* the application (args: what the closure around it received)
Ran(kind, who, callNext, reply, args) ==
    [kind |-> kind, who |-> who, next |-> callNext, reply |-> reply,
     args |-> args]

\* a complexHandler runs: middleware.Invoke(ctx, next); the middleware may
\* reply and may call next, which runs the handler unless it is nil
Invoke ==
    /\ srv.pc = "run"
    /\ srv.layer.kind = "complex"
    /\ \E reply \in MiddlewareReplies, callNext \in BOOLEAN :
          /\ ctx' = IF reply = 0 THEN ctx ELSE write(ctx, "Reply", reply)
          /\ srv' = [srv EXCEPT
                       !.log = Append(@, Ran("middleware",
                                             srv.layer.middleware,
                                             callNext, reply, << >>)),
                       !.pc = IF callNext /\ srv.layer.handler.kind # "nil"
                              THEN "run" ELSE "ran",
                       !.layer = IF callNext /\ srv.layer.handler.kind # "nil"
                                 THEN srv.layer.handler ELSE NilHandler]
    /\ UNCHANGED << router, probe, lookups, host >>

\* the closure of AddEndpoint runs the handler of the application
Handle ==
    /\ srv.pc = "run"
    /\ srv.layer.kind = "endpoint"
    /\ \E reply \in HandlerReplies :
          /\ ctx' = IF reply = 0 THEN ctx ELSE write(ctx, "Reply", reply)
          /\ srv' = [srv EXCEPT
                       !.log = Append(@, Ran("handler", srv.layer.name,
                                             FALSE, reply, srv.args)),
                       !.pc = "ran",
                       !.layer = NilHandler]
    /\ UNCHANGED << router, probe, lookups, host >>

\* run is nil or has returned: ServeHTTP replies 404 if nothing has
ServeReturn ==
    /\ \/ srv.pc = "ran"
       \/ srv.pc = "run" /\ srv.layer.kind = "nil"
    /\ ctx' = IF ctx.statuscode = 0
              THEN write(ctx, "Reply", StatusNotFound)
              ELSE ctx
    /\ srv' = [srv EXCEPT !.pc = "done"]
    /\ UNCHANGED << router, probe, lookups, host >>

\* the request is over: ServeHTTP has returned or its panic has unwound
ServeEnd ==
    /\ srv.pc \in {"done", "panicked"}
    /\ srv' = [srv EXCEPT !.pc = "idle", !.method = "", !.path = "",
                          !.stk = NoStack, !.found = NoRet,
                          !.run = NilHandler, !.layer = NilHandler,
                          !.args = << >>, !.log = << >>]
    /\ ctx' = NoContext
    /\ UNCHANGED << router, probe, lookups, host >>

ServeNext ==
    \/ \E ms \in UsePool : Use(ms)
    \/ \E path \in EndpointPaths, ms \in EndpointMiddlewares :
          AddEndpointWith("GET", path, ms)
    \/ \E method \in ServeMethods, path \in ServePaths :
          ServeHTTP(method, path)
    \/ ServeSearch
    \/ Invoke
    \/ Handle
    \/ ServeReturn
    \/ ServeEnd

ServeSpec == ServeInit /\ [][ServeNext]_vars

\* something that ran for the request has replied
Replied == \E i \in 1..Len(srv.log) : srv.log[i].reply # 0

(***************************************************************************)
(* C25.  Every request is answered: ServeHTTP returns (the request is not  *)
(* abandoned), and then the status code is not zero; a handler Search      *)
(* found is run with the captured args, otherwise the global pipeline with *)
(* no args; if nothing has replied a 404 is written exactly once.          *)
(***************************************************************************)
C25_EveryRequestAnswered ==
    /\ srv.pc # "panicked"
    /\ srv.pc \in {"run", "ran", "done"} =>
          IF srv.found.value # NoVal
          THEN srv.run = srv.table[srv.found.value]
               /\ srv.args = srv.found.args
          ELSE srv.run = srv.global /\ srv.args = << >>
    /\ srv.pc = "done" =>
          /\ ctx.statuscode # 0
          /\ ~Replied => ctx.header = << StatusNotFound >>
          /\ Replied => \A i \in 1..Len(ctx.header) :
                            ctx.header[i] # StatusNotFound

RECURSIVE GlobalOrder(_)
\* the middlewares of host.global after the Use calls uses, by the claim:
\* those of the latest Use come first, then the handler that global was
GlobalOrder(uses) ==
    IF Len(uses) = 0 THEN << >>
    ELSE uses[Len(uses)] \o GlobalOrder(SubSeq(uses, 1, Len(uses) - 1))

\* m1, ..., mn of the handler the request was dispatched to
Chain == IF srv.found.value # NoVal
         THEN srv.built[srv.found.value]
         ELSE GlobalOrder(srv.uses)

\* whether that handler was built around a handler of the application
HasInner == srv.found.value # NoVal

(***************************************************************************)
(* C26.  Middleware order: the handler built by pipeline(h, m1, ..., mn)   *)
(* invokes m1 first, the next of mi invokes m(i+1), the next of mn runs h  *)
(* with the args the composed handler received; h runs only if every       *)
(* middleware called next; with a nil h the innermost next does nothing.   *)
(***************************************************************************)
C26_MiddlewareOrder ==
    srv.pc \in {"run", "ran", "done"} =>
        /\ \A i \in 1..Len(srv.log) :
              /\ srv.log[i].kind = "middleware" =>
                    i <= Len(Chain) /\ srv.log[i].who = Chain[i]
              /\ srv.log[i].kind = "handler" =>
                    /\ HasInner
                    /\ i = Len(Chain) + 1
                    /\ srv.log[i].who = srv.found.value[2]
                    /\ srv.log[i].args = srv.args
              /\ i > 1 => /\ srv.log[i - 1].kind = "middleware"
                          /\ srv.log[i - 1].next
        /\ (srv.pc = "run" /\ srv.layer.kind # "nil") =>
              /\ Len(srv.log) = 0 \/ srv.log[Len(srv.log)].next
              /\ Len(srv.log) < Len(Chain) =>
                    /\ srv.layer.kind = "complex"
                    /\ srv.layer.middleware = Chain[Len(srv.log) + 1]
              /\ Len(srv.log) >= Len(Chain) => srv.layer.kind = "endpoint"
        /\ (srv.pc = "ran" /\ srv.log[Len(srv.log)].kind = "middleware"
                           /\ srv.log[Len(srv.log)].next) =>
              ~HasInner /\ Len(srv.log) = Len(Chain)

\* two middlewares called next and the handler of the route ran with the
\* captured arg
C26_Witness ==
    /\ srv.pc = "ran"
    /\ Len(srv.log) = 3
    /\ srv.log[1].who # srv.log[2].who
    /\ srv.log[3].kind = "handler"
    /\ Len(srv.log[3].args) = 1

(***************************************************************************)
(* Vocabulary of the claims about the lookup a call of stack.search makes.  *)
(***************************************************************************)
\* the call of stack.search that is next executes back()
Backtracks ==
    /\ pc = "searching"
    /\ loop(stk).err
    /\ Len(stk.history) > 0
    /\ ~backPanics(stk)

\* the frame whose key the next call of stack.search looks up: the current
\* frame with its attempt counted, or the frame back() restores
Tried == IF loop(stk).err THEN Back(stk.history)
         ELSE [text |-> stk.current.text, times |-> loop(stk).times]

\* the next call of stack.search reaches its lookup stack.node.nodes[key]
LooksUp ==
    /\ pc = "searching"
    /\ stk.node # Nil
    /\ loop(stk).err => Backtracks

\* key is the candidate number times of a segment text
Candidate(text, times, key) ==
    \/ times = 1 /\ key = text
    \/ times = 2 /\ key = TypedToken(text) /\ key \in Tokens \ {"{string}"}
    \/ times = 3 /\ key = "{string}"

(***************************************************************************)
(* C27.  At most three candidates per segment: every key looked up for a   *)
(* segment is its literal text on the first attempt, its typed token on    *)
(* the second, {string} on the third; integer-looking text is never tried  *)
(* on {float} and numeric text never on {bool}.                            *)
(***************************************************************************)
C27_ThreeCandidates ==
    LooksUp =>
        /\ Candidate(Tried.text, Tried.times, loop(stk).key)
        /\ (Tried.times = 2 /\ loop(stk).key = "{float}")
              => ~ParseInt(Tried.text).ok
        /\ (Tried.times = 2 /\ loop(stk).key = "{bool}")
              => ~ParseInt(Tried.text).ok /\ ~ParseFloat(Tried.text).ok

\* the number of wildcard tokens among the keys of a registered path
RECURSIVE TokenCount(_)
TokenCount(keys) ==
    IF Len(keys) = 0 THEN 0
    ELSE (IF keys[1] \in Tokens THEN 1 ELSE 0) + TokenCount(Tail(keys))

(***************************************************************************)
(* C28.  Argument count matches the route: for every successful Search the *)
(* number of returned args equals the number of wildcard tokens in the     *)
(* registered path whose value is returned.                                *)
(***************************************************************************)
C28_ArgCount ==
    Found => \A p \in Returned : Len(ret.args) = TokenCount(KeysOf(p))

(***************************************************************************)
(* C29.  A backtrack step commits to nothing: the call of stack.search     *)
(* that executes back() leaves the cursor as back() made it; it neither    *)
(* descends into a child of the restored node nor ends the Search.         *)
(***************************************************************************)
C29_BacktrackCommitsNothing ==
    [][ Backtracks => /\ pc' = "searching"
                      /\ stk' = back(tree, stk) ]_vars

\* the sequences in which the routes of S can be registered
RECURSIVE Orders(_)
Orders(S) ==
    IF S = {} THEN { << >> }
    ELSE UNION { { << p >> \o seq : seq \in Orders(S \ {p}) } : p \in S }

\* the routes Add was called for
Attempted == { p \in RoutePool : calls[p] > 0 }

(***************************************************************************)
(* C30.  Registration order independence: when routes with pairwise        *)
(* distinct paths have been added, in whatever order, every Add has        *)
(* succeeded and the trie is the one every other order of the same Add     *)
(* calls yields, so every Search returns the same value and args.          *)
(***************************************************************************)
C30_OrderIndependent ==
    (pc = "idle" /\ \A p \in RoutePool : calls[p] <= 1) =>
        /\ DOMAIN added = Attempted
        /\ \A seq \in Orders(Attempted) :
              /\ DOMAIN RegisterAll(NewCollection, seq).added = Attempted
              /\ RegisterAll(NewCollection, seq).tree = tree

====
